---------------------------- MODULE Spec2Model ----------------------------
(***************************************************************************)
(* The chat server of src/chat/main.go as a state machine.                 *)
(*                                                                         *)
(* One process per GET request (a connection, getHandler) and one per POST *)
(* request (a submit, postHandler).  They share App.history, App.chans and *)
(* the two sync.RWMutex; every connection owns one buffered channel.       *)
(* A step of the model is one lock call, one critical section, one         *)
(* non-blocking channel send, or one loop iteration of the live loop.      *)
(* A network write that stalls is a step that is not taken.                *)
(***************************************************************************)
EXTENDS Integers, Sequences, FiniteSets, TLC

(***************************************************************************)
(* Program constants (src/chat/main.go:20-29).                             *)
(***************************************************************************)
historyLimit == 20
maxMsgLen == 1024
bufferSize == 5

(***************************************************************************)
(* Bounds of the model.                                                    *)
(***************************************************************************)
NumConns == 2
NumPosts == 2
MaxRequests == 2
FanoutRequests == 4
MaxTime == 0
MaxFail == 2
MaxChars == 3
PingMod == 2

Conns == 1..NumConns
Posts == {NumConns + i : i \in 1..NumPosts}
\* What time.Now() can read (line 213).
Timestamps == 0..MaxTime

(***************************************************************************)
(* Strings are sequences of one-character strings.                         *)
(***************************************************************************)
Repeat(ch, n) == [i \in 1..n |-> ch]

\* A variant of HTMLEscapeChar that leaves the apostrophe as it is.
HTMLEscapeChar_NoApos(ch) ==
    CASE ch = "&"   -> <<"&", "a", "m", "p", ";">>
      [] ch = "<"   -> <<"&", "l", "t", ";">>
      [] ch = ">"   -> <<"&", "g", "t", ";">>
      [] ch = "\""  -> <<"&", "#", "3", "4", ";">>
      [] ch = "NUL" -> <<"U+FFFD">>
      [] OTHER      -> <<ch>>

\* html/template.HTMLEscapeString, called at line 210: the five HTML
\* specials become entities and NUL becomes U+FFFD.
HTMLEscapeChar(ch) ==
    CASE ch = "&"   -> <<"&", "a", "m", "p", ";">>
      [] ch = "<"   -> <<"&", "l", "t", ";">>
      [] ch = ">"   -> <<"&", "g", "t", ";">>
      [] ch = "\""  -> <<"&", "#", "3", "4", ";">>
      [] ch = "'"   -> <<"&", "#", "3", "9", ";">>
      [] ch = "NUL" -> <<"U+FFFD">>
      [] OTHER      -> <<ch>>

\* Every character replaced in place; the string is split in halves so
\* that a long one is not a deep recursion.
RECURSIVE HTMLEscapeString(_)
HTMLEscapeString(s) ==
    IF s = <<>> THEN <<>>
    ELSE IF Len(s) = 1 THEN HTMLEscapeChar(s[1])
    ELSE LET h == Len(s) \div 2
         IN  HTMLEscapeString(SubSeq(s, 1, h))
                 \o HTMLEscapeString(SubSeq(s, h + 1, Len(s)))

\* The white space strings.TrimSpace (line 211) removes.
IsSpace(ch) == ch \in {" ", "\t", "\n", "\r", "\f"}

RECURSIVE TrimLeft(_)
TrimLeft(s) ==
    IF s # <<>> /\ IsSpace(Head(s)) THEN TrimLeft(Tail(s)) ELSE s

RECURSIVE TrimRight(_)
TrimRight(s) ==
    IF s # <<>> /\ IsSpace(s[Len(s)])
    THEN TrimRight(SubSeq(s, 1, Len(s) - 1))
    ELSE s

\* A variant of TrimSpace that trims nothing.
TrimSpace_None(s) == s

TrimSpace(s) == TrimRight(TrimLeft(s))

(***************************************************************************)
(* Requests of the model: the empty message, a blank one, one that needs   *)
(* trimming and escaping, and one that is one byte too long.               *)
(***************************************************************************)
TooLong == Repeat("a", maxMsgLen + 1)
Msgs == { <<>>, <<" ", "\n">>, <<" ", "<", "a", " ">>, TooLong }
ValidMsgs == { <<"a">> }

\* Every string of at most MaxChars characters of the alphabet, and the
\* example of the markup message <b>hi</b>.
Alphabet == {"<", ">", "&", "\"", "'", " ", "a", "NUL"}
Strings(n) == UNION {[1..k -> Alphabet] : k \in 0..n}
Example == <<"<", "b", ">", "h", "i", "<", "/", "b", ">">>
AllInputs == Strings(MaxChars) \cup {Example}

(***************************************************************************)
(* Fragments (lines 93, 109, 125) and the page head (line 32).             *)
(***************************************************************************)
NewFragment(u) ==
    [kind |-> "new", id |-> u.id, message |-> u.message,
     timestamp |-> u.timestamp]
HistoryFragment(u) ==
    [kind |-> "hist", id |-> u.id, message |-> u.message,
     timestamp |-> u.timestamp]
CountFragment(n) == [kind |-> "count", n |-> n]
pageHead == [kind |-> "head"]

VARIABLES
    history,        \* App.history
    chans,          \* App.chans: the connections whose channel is registered
    historyMutex,   \* App.historyMutex: the goroutines holding it for reading
    chansMutex,     \* App.chansMutex: the goroutines holding it for reading
    queue,          \* per connection: the buffer of its channel ch
    pc,             \* per process: where its handler stands
    req,            \* per submit: the form value msg of its request
    update,         \* per submit: the *Update it built
    resp,           \* per submit: the status it answered
    todo,           \* per process: the channels its range loop has left
    cnt,            \* per connection: the count sendCount rendered
    closing,        \* per connection: the deferred function is running
    pings,          \* per connection: keep-alive bytes written, mod PingMod
    unflushed,      \* per connection: writes since the last Flush
    out,            \* per connection: what was written to the response
    enq,            \* per connection: what was enqueued into its channel
    appended,       \* every update append was called with, in order
    arrived,        \* the form value of every POST request, in arrival order
    before,         \* per connection: the updates fanned out before it joined
    trig,           \* per connection: len(a.chans) after its last join or leave
    calls,          \* per connection: how often it called addChan, removeChan, sendCount
    tried,          \* per connection: every payload a send into its channel was tried with
    fail            \* per connection: the first Write that failed, and whether it wrote or flushed after it

vars == <<history, chans, historyMutex, chansMutex, queue, pc, req, update,
          resp, todo, cnt, closing, pings, unflushed, out, enq, appended,
          arrived, before, trig, calls, tried, fail>>

Procs == Conns \cup Posts
NoUpdate == [id |-> 0, timestamp |-> 0, message |-> <<>>]
\* deferred: the calls of sendCount made by the deferred function (line 175).
NoCalls == [addChan |-> 0, removeChan |-> 0, sendCount |-> 0, deferred |-> 0]
NoFail == [at |-> "none", more |-> FALSE]

\* The record of a connection's writes after a Write at `where` returned ok
\* or an error, and after a Flush: the first error is kept, and so is
\* whether the handler wrote or flushed once more after it.
AfterWrite(f, where, ok) ==
    IF f.at # "none" THEN [f EXCEPT !.more = TRUE]
    ELSE IF ok THEN f ELSE [at |-> where, more |-> FALSE]
AfterFlush(f) == IF f.at # "none" THEN [f EXCEPT !.more = TRUE] ELSE f

(***************************************************************************)
(* sync.RWMutex: a mutex is the set of goroutines that hold it for         *)
(* reading.  Lock returns when nobody holds it; the three sections that    *)
(* take a mutex for writing (append, addChan, removeChan) are one step     *)
(* each, from Lock to the deferred Unlock, so no state has a writer in it. *)
(***************************************************************************)
\* A variant of Lock that does not wait for the readers.
CanLock_Always(m) == TRUE

CanLock(m) == m = {}
RLock(m, p) == m \cup {p}
\* A variant of RUnlock that keeps the mutex.
RUnlock_Keep(m, p) == m

RUnlock(m, p) == m \ {p}

\* A variant of append that never drops an entry.
append_NoTrim(h, u) == Append(h, u)

\* A variant of append that, once full, keeps the entries it has.
append_KeepFirst(h, u) == IF Len(h) >= historyLimit THEN h ELSE Append(h, u)

(***************************************************************************)
(* App.append, lines 85-88: add at the tail, keep the last historyLimit.   *)
(***************************************************************************)
append(h, u) ==
    LET h2 == Append(h, u)
    IN  IF Len(h2) > historyLimit
        THEN SubSeq(h2, Len(h2) - historyLimit + 1, Len(h2))
        ELSE h2

\* A variant of TrySend that makes room in a full channel by dropping its
\* oldest payload.
TrySend_DropOldest(q, data) ==
    IF Len(q) < bufferSize THEN Append(q, data) ELSE Append(Tail(q), data)

\* select { case ch <- data: default: }, lines 98-102 and 115-119.
\* A variant of the send that puts the payload at the head of the buffer.
TrySend_Front(q, data) ==
    IF Len(q) < bufferSize THEN <<data>> \o q ELSE q

TrySend(q, data) == IF Len(q) < bufferSize THEN Append(q, data) ELSE q

\* len(a.chans), line 94.
lenChans == Cardinality(chans)

\* A variant of rangeChans that visits every channel, registered or not.
rangeChans_All == Conns

\* A variant of the range that visits no channel.
rangeChans_None == {}

\* What a range over a.chans visits, lines 97 and 114.
rangeChans == chans

\* The updates of the first k accepted posts of a server no connection has
\* opened yet.
Earlier(k) ==
    [i \in 1..k |-> [id |-> -i, timestamp |-> 0, message |-> <<"a">>]]

RECURSIVE Fold(_, _)
Fold(h, us) == IF us = <<>> THEN h ELSE Fold(append(h, Head(us)), Tail(us))

\* NewApp (lines 74-79), then k accepted posts.
InitOf(K) ==
    /\ \E k \in K :
          /\ history = Fold(<<>>, Earlier(k))
          /\ appended = Earlier(k)
    /\ chans = {}
    /\ historyMutex = {}
    /\ chansMutex = {}
    /\ queue = [c \in Conns |-> <<>>]
    /\ pc = [p \in Procs |-> "idle"]
    /\ req = [p \in Posts |-> <<>>]
    /\ update = [p \in Posts |-> NoUpdate]
    /\ resp = [p \in Posts |-> 0]
    /\ todo = [p \in Procs |-> {}]
    /\ cnt = [c \in Conns |-> 0]
    /\ closing = [c \in Conns |-> FALSE]
    /\ pings = [c \in Conns |-> 0]
    /\ unflushed = [c \in Conns |-> 0]
    /\ out = [c \in Conns |-> <<>>]
    /\ enq = [c \in Conns |-> <<>>]
    /\ arrived = <<>>
    /\ before = [c \in Conns |-> {}]
    /\ trig = [c \in Conns |-> 0]
    /\ calls = [c \in Conns |-> NoCalls]
    /\ tried = [c \in Conns |-> <<>>]
    /\ fail = [c \in Conns |-> NoFail]

(***************************************************************************)
(* postHandler, lines 203-217.                                             *)
(***************************************************************************)
\* Lines 204-213 and 216: a request arrives with form value m; it is
\* refused, found empty, or made an Update.
\* A variant of tooLong that refuses nothing.
tooLong_Never(m) == FALSE

\* Line 206.
tooLong(m) == Len(m) > maxMsgLen

postHandler(p, M, R) ==
    /\ pc[p] \in {"idle", "done"}
    /\ Len(arrived) < R
    /\ \E m \in M :
          /\ arrived' = Append(arrived, m)
          /\ req' = [req EXCEPT ![p] = m]
          /\ IF tooLong(m)
             THEN /\ resp' = [resp EXCEPT ![p] = 302]
                  /\ pc' = [pc EXCEPT ![p] = "done"]
                  /\ update' = [update EXCEPT ![p] = NoUpdate]
             ELSE LET msg == TrimSpace(HTMLEscapeString(m))
                  IN  IF Len(msg) > 0
                      THEN /\ \E ts \in Timestamps :
                                update' = [update EXCEPT ![p] =
                                    [id |-> Len(arrived'), timestamp |-> ts,
                                     message |-> msg]]
                           /\ pc' = [pc EXCEPT ![p] = "append"]
                           /\ resp' = [resp EXCEPT ![p] = 0]
                      ELSE /\ resp' = [resp EXCEPT ![p] = 302]
                           /\ pc' = [pc EXCEPT ![p] = "done"]
                           /\ update' = [update EXCEPT ![p] = NoUpdate]
    /\ UNCHANGED <<history, chans, historyMutex, chansMutex, queue, todo,
                   cnt, closing, pings, unflushed, out, enq, appended,
                   before, trig, calls, tried, fail>>

\* Lines 83-89: append, from Lock to the deferred Unlock.
appendUpdate(p) ==
    /\ pc[p] = "append"
    /\ CanLock(historyMutex)
    /\ history' = append(history, update[p])
    /\ appended' = Append(appended, update[p])
    /\ pc' = [pc EXCEPT ![p] = "send"]
    /\ UNCHANGED <<chans, historyMutex, chansMutex, queue, req, update, resp,
                   todo, cnt, closing, pings, unflushed, out, enq, arrived,
                   before, trig, calls, tried, fail>>

\* Lines 109-114: the fragment is rendered, a.chansMutex.RLock() returns
\* and the range over a.chans begins.
sendRLock(p) ==
    /\ pc[p] = "send"
    /\ chansMutex' = RLock(chansMutex, p)
    /\ todo' = [todo EXCEPT ![p] = rangeChans]
    /\ pc' = [pc EXCEPT ![p] = "fanout"]
    /\ UNCHANGED <<history, chans, historyMutex, queue, req, update, resp,
                   cnt, closing, pings, unflushed, out, enq, appended,
                   arrived, before, trig, calls, tried, fail>>

\* Lines 114-120: one iteration of the range loop of send.
sendOne(p, ch) ==
    /\ pc[p] = "fanout"
    /\ ch \in todo[p]
    /\ queue' = [queue EXCEPT ![ch] = TrySend(@, NewFragment(update[p]))]
    /\ enq' = [enq EXCEPT ![ch] =
                  IF queue'[ch] # queue[ch]
                  THEN Append(@, NewFragment(update[p])) ELSE @]
    /\ tried' = [tried EXCEPT ![ch] = Append(@, NewFragment(update[p]))]
    /\ todo' = [todo EXCEPT ![p] = @ \ {ch}]
    /\ UNCHANGED <<history, chans, historyMutex, chansMutex, pc, req, update,
                   resp, cnt, closing, pings, unflushed, out, appended,
                   arrived, before, trig, calls, fail>>

\* Line 113 (deferred RUnlock) and line 216: send returns and the request
\* is answered with the redirect.
sendDone(p) ==
    /\ pc[p] = "fanout"
    /\ todo[p] = {}
    /\ chansMutex' = RUnlock(chansMutex, p)
    /\ resp' = [resp EXCEPT ![p] = 302]
    /\ pc' = [pc EXCEPT ![p] = "done"]
    /\ UNCHANGED <<history, chans, historyMutex, queue, req, update, todo,
                   cnt, closing, pings, unflushed, out, enq, appended,
                   arrived, before, trig, calls, tried, fail>>

(***************************************************************************)
(* getHandler, lines 164-200.                                              *)
(***************************************************************************)
\* A variant of getNoFlusher that writes the page head before it returns.
getNoFlusher_Writes(c) ==
    /\ pc[c] = "idle"
    /\ pc' = [pc EXCEPT ![c] = "returned"]
    /\ out' = [out EXCEPT ![c] = Append(@, pageHead)]
    /\ UNCHANGED <<history, chans, historyMutex, chansMutex, queue, req,
                   update, resp, todo, cnt, closing, pings, unflushed, enq,
                   appended, arrived, before, trig, calls, tried, fail>>

\* Lines 165-169: without a Flusher the handler returns.
getNoFlusher(c) ==
    /\ pc[c] = "idle"
    /\ pc' = [pc EXCEPT ![c] = "returned"]
    /\ UNCHANGED <<history, chans, historyMutex, chansMutex, queue, req,
                   update, resp, todo, cnt, closing, pings, unflushed, out,
                   enq, appended, arrived, before, trig, calls, tried, fail>>

\* A variant of addChan that leaves the Registry as it is.
addChan_NoJoin(c) ==
    /\ pc[c] = "idle"
    /\ pc' = [pc EXCEPT ![c] = "head"]
    /\ UNCHANGED <<history, chans, historyMutex, chansMutex, queue, req,
                   update, resp, todo, cnt, closing, pings, unflushed, out,
                   enq, appended, arrived, before, trig, calls, tried, fail>>

\* Lines 171-172 and 139-143: the channel is made and addChan adds it to
\* a.chans, from Lock to the deferred Unlock.
addChan(c) ==
    /\ pc[c] = "idle"
    /\ CanLock(chansMutex)
    /\ chans' = chans \cup {c}
    /\ trig' = [trig EXCEPT ![c] = Cardinality(chans')]
    /\ calls' = [calls EXCEPT ![c].addChan = @ + 1]
    /\ before' = [before EXCEPT ![c] =
          {u.id : u \in {appended[i] : i \in 1..Len(appended)}}
              \ {update[p].id : p \in {q \in Posts : pc[q] = "send"}}]
    /\ pc' = [pc EXCEPT ![c] = "head"]
    /\ UNCHANGED <<history, historyMutex, chansMutex, queue, req, update,
                   resp, todo, cnt, closing, pings, unflushed, out, enq,
                   appended, arrived, tried, fail>>

\* Line 178: the page head is written; the result of Write is dropped.
writeHead(c, W) ==
    /\ pc[c] = "head"
    /\ \E ok \in W :
          /\ out' = [out EXCEPT ![c] = IF ok THEN Append(@, pageHead) ELSE @]
          /\ unflushed' = [unflushed EXCEPT ![c] = IF ok THEN @ + 1 ELSE @]
          /\ fail' = [fail EXCEPT ![c] = AfterWrite(@, "head", ok)]
    /\ pc' = [pc EXCEPT ![c] = "sendHistory"]
    /\ UNCHANGED <<history, chans, historyMutex, chansMutex, queue, req,
                   update, resp, todo, cnt, closing, pings, enq, appended,
                   arrived, before, trig, calls, tried>>

\* Line 126: a.historyMutex.RLock() returns.
sendHistoryRLock(c) ==
    /\ pc[c] = "sendHistory"
    /\ historyMutex' = RLock(historyMutex, c)
    /\ pc' = [pc EXCEPT ![c] = "replay"]
    /\ UNCHANGED <<history, chans, chansMutex, queue, req, update, resp,
                   todo, cnt, closing, pings, unflushed, out, enq, appended,
                   arrived, before, trig, calls, tried, fail>>

\* The entries a failing Write can be the Write of.
FailPoints(h, W) ==
    IF FALSE \in W THEN {k \in 1..MaxFail : k <= Len(h)} ELSE {}

\* Lines 128-135 with the deferred RUnlock, then lines 180-183: every entry
\* is written and the handler flushes (failAt = 0), or the Write of entry
\* failAt fails and the handler returns.
sendHistory(c, W) ==
    /\ pc[c] = "replay"
    /\ \E failAt \in {0} \cup FailPoints(history, W) :
          LET k == IF failAt = 0 THEN Len(history) ELSE failAt - 1
              f == IF k > 0 THEN AfterWrite(fail[c], "history", TRUE)
                   ELSE fail[c]
          IN  /\ fail' = [fail EXCEPT ![c] =
                           IF failAt = 0 THEN AfterFlush(f)
                           ELSE AfterWrite(f, "history", FALSE)]
              /\ out' = [out EXCEPT ![c] =
                          @ \o [i \in 1..k |-> HistoryFragment(history[i])]]
              /\ IF failAt = 0
                 THEN /\ unflushed' = [unflushed EXCEPT ![c] = 0]
                      /\ pc' = [pc EXCEPT ![c] = "sendCount"]
                 ELSE /\ unflushed' = [unflushed EXCEPT ![c] = @ + k]
                      /\ pc' = [pc EXCEPT ![c] = "removeChan"]
    /\ historyMutex' = RUnlock(historyMutex, c)
    /\ UNCHANGED <<history, chans, chansMutex, queue, req, update, resp,
                   todo, cnt, closing, pings, enq, appended, arrived, before,
                   trig, calls, tried>>

\* Line 94: len(a.chans) is read before the mutex is taken.
sendCountRead(c) ==
    /\ pc[c] = "sendCount"
    /\ cnt' = [cnt EXCEPT ![c] = lenChans]
    /\ calls' = [calls EXCEPT ![c].sendCount = @ + 1,
                              ![c].deferred = IF closing[c] THEN @ + 1 ELSE @]
    /\ pc' = [pc EXCEPT ![c] = "count_rlock"]
    /\ UNCHANGED <<history, chans, historyMutex, chansMutex, queue, req,
                   update, resp, todo, closing, pings, unflushed, out, enq,
                   appended, arrived, before, trig, tried, fail>>

\* Lines 95-97: a.chansMutex.RLock() returns and the range begins.
sendCountRLock(c) ==
    /\ pc[c] = "count_rlock"
    /\ chansMutex' = RLock(chansMutex, c)
    /\ todo' = [todo EXCEPT ![c] = rangeChans]
    /\ pc' = [pc EXCEPT ![c] = "count_fanout"]
    /\ UNCHANGED <<history, chans, historyMutex, queue, req, update, resp,
                   cnt, closing, pings, unflushed, out, enq, appended,
                   arrived, before, trig, calls, tried, fail>>

\* Lines 97-103: one iteration of the range loop of sendCount.
sendCountOne(c, ch) ==
    /\ pc[c] = "count_fanout"
    /\ ch \in todo[c]
    /\ queue' = [queue EXCEPT ![ch] = TrySend(@, CountFragment(cnt[c]))]
    /\ enq' = [enq EXCEPT ![ch] =
                  IF queue'[ch] # queue[ch]
                  THEN Append(@, CountFragment(cnt[c])) ELSE @]
    /\ tried' = [tried EXCEPT ![ch] = Append(@, CountFragment(cnt[c]))]
    /\ todo' = [todo EXCEPT ![c] = @ \ {ch}]
    /\ UNCHANGED <<history, chans, historyMutex, chansMutex, pc, req, update,
                   resp, cnt, closing, pings, unflushed, out, appended,
                   arrived, before, trig, calls, fail>>

\* Line 96 (deferred RUnlock): sendCount returns, to the live loop (line
\* 185) or out of the deferred function (line 176).
sendCountDone(c) ==
    /\ pc[c] = "count_fanout"
    /\ todo[c] = {}
    /\ chansMutex' = RUnlock(chansMutex, c)
    /\ pc' = [pc EXCEPT ![c] = IF closing[c] THEN "closed" ELSE "live"]
    /\ UNCHANGED <<history, chans, historyMutex, queue, req, update, resp,
                   todo, cnt, closing, pings, unflushed, out, enq, appended,
                   arrived, before, trig, calls, tried, fail>>

\* Lines 187-191 and 198: a payload is taken from the channel and written;
\* the handler flushes, or returns when Write fails.
liveRecv(c, W) ==
    /\ pc[c] = "live"
    /\ queue[c] # <<>>
    /\ queue' = [queue EXCEPT ![c] = Tail(@)]
    /\ \E ok \in W :
          IF ok
          THEN /\ out' = [out EXCEPT ![c] = Append(@, Head(queue[c]))]
               /\ unflushed' = [unflushed EXCEPT ![c] = 0]
               /\ fail' = [fail EXCEPT ![c] =
                              AfterFlush(AfterWrite(@, "live", TRUE))]
               /\ UNCHANGED pc
          ELSE /\ pc' = [pc EXCEPT ![c] = "removeChan"]
               /\ fail' = [fail EXCEPT ![c] = AfterWrite(@, "live", FALSE)]
               /\ UNCHANGED <<out, unflushed>>
    /\ UNCHANGED <<history, chans, historyMutex, chansMutex, req, update,
                   resp, todo, cnt, closing, pings, enq, appended, arrived,
                   before, trig, calls, tried>>

\* A variant of livePing whose timer never fires.
livePing_NoTimer(c, W) ==
    /\ pc[c] = "live"
    /\ FALSE
    /\ UNCHANGED vars

\* A variant of livePing that goes on after a failed Write.
livePing_IgnoreError(c, W) ==
    /\ pc[c] = "live"
    /\ \E ok \in W :
          /\ pings' = [pings EXCEPT ![c] = IF ok THEN (@ + 1) % PingMod ELSE @]
          /\ fail' = [fail EXCEPT ![c] = AfterFlush(AfterWrite(@, "live", ok))]
    /\ unflushed' = [unflushed EXCEPT ![c] = 0]
    /\ UNCHANGED <<history, chans, historyMutex, chansMutex, queue, pc, req,
                   update, resp, todo, cnt, closing, out, enq, appended,
                   arrived, before, trig, calls, tried>>

\* A variant of livePing that returns without the deferred function.
livePing_NoCleanup(c, W) ==
    /\ pc[c] = "live"
    /\ pc' = [pc EXCEPT ![c] = "closed"]
    /\ fail' = [fail EXCEPT ![c] = AfterWrite(@, "live", FALSE)]
    /\ UNCHANGED <<history, chans, historyMutex, chansMutex, queue, req,
                   update, resp, todo, cnt, closing, pings, unflushed, out,
                   enq, appended, arrived, before, trig, calls, tried>>

\* Lines 192-196 and 198: the timer fires and one space is written; the
\* handler flushes, or returns when Write fails.
livePing(c, W) ==
    /\ pc[c] = "live"
    /\ \E ok \in W :
          IF ok
          THEN /\ pings' = [pings EXCEPT ![c] = (@ + 1) % PingMod]
               /\ unflushed' = [unflushed EXCEPT ![c] = 0]
               /\ fail' = [fail EXCEPT ![c] =
                              AfterFlush(AfterWrite(@, "live", TRUE))]
               /\ UNCHANGED pc
          ELSE /\ pc' = [pc EXCEPT ![c] = "removeChan"]
               /\ fail' = [fail EXCEPT ![c] = AfterWrite(@, "live", FALSE)]
               /\ UNCHANGED <<pings, unflushed>>
    /\ UNCHANGED <<history, chans, historyMutex, chansMutex, queue, req,
                   update, resp, todo, cnt, closing, out, enq, appended,
                   arrived, before, trig, calls, tried>>

\* Lines 173-174 and 146-150: the deferred function runs removeChan, from
\* Lock to the deferred Unlock.
removeChan(c) ==
    /\ pc[c] = "removeChan"
    /\ CanLock(chansMutex)
    /\ chans' = chans \ {c}
    /\ trig' = [trig EXCEPT ![c] = Cardinality(chans')]
    /\ calls' = [calls EXCEPT ![c].removeChan = @ + 1]
    /\ closing' = [closing EXCEPT ![c] = TRUE]
    /\ pc' = [pc EXCEPT ![c] = "sendCount"]
    /\ UNCHANGED <<history, historyMutex, chansMutex, queue, req, update,
                   resp, todo, cnt, pings, unflushed, out, enq, appended,
                   arrived, before, tried, fail>>

getHandler(c, W) ==
    \/ getNoFlusher(c)
    \/ addChan(c)
    \/ writeHead(c, W)
    \/ sendHistoryRLock(c)
    \/ sendHistory(c, W)
    \/ sendCountRead(c)
    \/ sendCountRLock(c)
    \/ \E ch \in Conns : sendCountOne(c, ch)
    \/ sendCountDone(c)
    \/ liveRecv(c, W)
    \/ livePing(c, W)
    \/ removeChan(c)

send(p) ==
    \/ appendUpdate(p)
    \/ sendRLock(p)
    \/ \E ch \in Conns : sendOne(p, ch)
    \/ sendDone(p)

OneConn == {1}
OnePost == {NumConns + 1}

(***************************************************************************)
(* Spec: one connection and concurrent submits, on a server that has taken *)
(* no, historyLimit - 1 or historyLimit posts before.                      *)
(***************************************************************************)
Init == InitOf({0, historyLimit - 1, historyLimit})
Next ==
    \/ \E p \in Posts : postHandler(p, Msgs, MaxRequests)
    \/ \E p \in Posts : send(p)
    \/ \E c \in OneConn : getHandler(c, BOOLEAN)
Spec == Init /\ [][Next]_vars

(***************************************************************************)
(* SpecConns: connections that open and close concurrently, no submit.     *)
(***************************************************************************)
InitConns == InitOf({0})
NextConns == \E c \in Conns : getHandler(c, BOOLEAN)
SpecConns == InitConns /\ [][NextConns]_vars

(***************************************************************************)
(* SpecClose: connections that open and close concurrently on a server     *)
(* whose History holds one update, so that a replay has a Write to fail.   *)
(***************************************************************************)
InitClose == InitOf({1})
SpecClose == InitClose /\ [][NextConns]_vars

(***************************************************************************)
(* SpecFanout: connection 1 has opened on a fresh server and stands in its *)
(* live loop with its own count in its channel (a state Spec reaches);     *)
(* the other connections open, one submitter posts again and again, no     *)
(* write fails and no timer fires.                                         *)
(***************************************************************************)
InitFanout ==
    /\ history = <<>>
    /\ appended = <<>>
    /\ chans = OneConn
    /\ historyMutex = {}
    /\ chansMutex = {}
    /\ queue = [c \in Conns |-> IF c \in OneConn THEN <<CountFragment(1)>>
                                ELSE <<>>]
    /\ enq = queue
    /\ pc = [p \in Procs |-> IF p \in OneConn THEN "live" ELSE "idle"]
    /\ req = [p \in Posts |-> <<>>]
    /\ update = [p \in Posts |-> NoUpdate]
    /\ resp = [p \in Posts |-> 0]
    /\ todo = [p \in Procs |-> {}]
    /\ cnt = [c \in Conns |-> IF c \in OneConn THEN 1 ELSE 0]
    /\ trig = cnt
    /\ closing = [c \in Conns |-> FALSE]
    /\ pings = [c \in Conns |-> 0]
    /\ unflushed = [c \in Conns |-> 0]
    /\ out = [c \in Conns |-> IF c \in OneConn THEN <<pageHead>> ELSE <<>>]
    /\ arrived = <<>>
    /\ before = [c \in Conns |-> {}]
    /\ calls = [c \in Conns |-> IF c \in OneConn
                                 THEN [NoCalls EXCEPT !.addChan = 1, !.sendCount = 1]
                                 ELSE NoCalls]
    /\ tried = enq
    /\ fail = [c \in Conns |-> NoFail]
NextFanout ==
    \/ \E p \in OnePost : postHandler(p, ValidMsgs, FanoutRequests)
    \/ \E p \in OnePost : send(p)
    \/ \E c \in Conns :
          \/ addChan(c)
          \/ writeHead(c, {TRUE})
          \/ sendHistoryRLock(c)
          \/ sendHistory(c, {TRUE})
          \/ sendCountRead(c)
          \/ sendCountRLock(c)
          \/ \E ch \in Conns : sendCountOne(c, ch)
          \/ sendCountDone(c)
          \/ liveRecv(c, {TRUE})
SpecFanout == InitFanout /\ [][NextFanout]_vars

\* InitFanout is a state of Spec: this predicate is violated under Spec.
InitFanoutNotReached == ~InitFanout

(***************************************************************************)
(* SpecLeave: connections that open and, when a Write of the live loop     *)
(* fails, close, while one submit broadcasts; no timer fires.              *)
(***************************************************************************)
NextLeave ==
    \/ \E p \in OnePost : postHandler(p, ValidMsgs, 1)
    \/ \E p \in OnePost : send(p)
    \/ \E c \in Conns :
          \/ addChan(c)
          \/ writeHead(c, {TRUE})
          \/ sendHistoryRLock(c)
          \/ sendHistory(c, {TRUE})
          \/ sendCountRead(c)
          \/ sendCountRLock(c)
          \/ \E ch \in Conns : sendCountOne(c, ch)
          \/ sendCountDone(c)
          \/ liveRecv(c, BOOLEAN)
          \/ removeChan(c)
SpecLeave == InitConns /\ [][NextLeave]_vars

(***************************************************************************)
(* SpecEscape: one submit of any string of the alphabet, one connection.   *)
(***************************************************************************)
NextEscape ==
    \/ \E p \in OnePost : postHandler(p, AllInputs, 1)
    \/ \E p \in OnePost : send(p)
    \/ \E c \in OneConn :
          \/ addChan(c)
          \/ writeHead(c, {TRUE})
          \/ sendHistoryRLock(c)
          \/ sendHistory(c, {TRUE})
          \/ sendCountRead(c)
          \/ sendCountRLock(c)
          \/ \E ch \in Conns : sendCountOne(c, ch)
          \/ sendCountDone(c)
          \/ liveRecv(c, {TRUE})
SpecEscape == InitConns /\ [][NextEscape]_vars

(***************************************************************************)
(* SpecLive: one connection and one submit; the goroutine of a connection  *)
(* in its live loop is scheduled again and again (its timer fires after    *)
(* pingRate), while nothing is assumed of the other steps.                 *)
(***************************************************************************)
NextLive ==
    \/ \E p \in OnePost : postHandler(p, Msgs, 1)
    \/ \E p \in OnePost : send(p)
    \/ \E c \in OneConn : getHandler(c, BOOLEAN)
SpecLive ==
    /\ InitConns
    /\ [][NextLive]_vars
    /\ \A c \in OneConn :
          WF_vars(liveRecv(c, BOOLEAN) \/ livePing(c, BOOLEAN))

(***************************************************************************)
(* SpecFair: one connection and one submit, where every goroutine that can *)
(* take a step is scheduled and every network write returns: a handler     *)
(* that has begun goes on whenever the mutex it waits for is free.  That a *)
(* request arrives is not assumed.                                         *)
(***************************************************************************)
running(c) ==
    \/ writeHead(c, BOOLEAN)
    \/ sendHistoryRLock(c)
    \/ sendHistory(c, BOOLEAN)
    \/ sendCountRead(c)
    \/ sendCountRLock(c)
    \/ \E ch \in Conns : sendCountOne(c, ch)
    \/ sendCountDone(c)
    \/ liveRecv(c, BOOLEAN)
    \/ livePing(c, BOOLEAN)
    \/ removeChan(c)
SpecFair ==
    /\ InitClose
    /\ [][NextLive]_vars
    /\ \A c \in OneConn : WF_vars(running(c))
    /\ \A p \in OnePost : WF_vars(send(p))

(***************************************************************************)
(*                         The claims                                      *)
(***************************************************************************)
Range(s) == {s[i] : i \in 1..Len(s)}
Min(a, b) == IF a < b THEN a ELSE b
LastN(s, n) == SubSeq(s, Len(s) - n + 1, Len(s))
Last(s) == s[Len(s)]
\* The ids of the fragments of one kind in a sequence of payloads.
IdsOf(kind, s) == {f.id : f \in {g \in Range(s) : g.kind = kind}}
AppendedIds == {u.id : u \in Range(appended)}
InSend(p) == pc[p] \in {"append", "send", "fanout"}

\* C1: in every reachable state, whatever the interleaving of submits and
\* connection handlers, History holds at most historyLimit updates.
C1_HistoryBounded == Len(history) <= historyLimit

\* History is full, an update has been dropped from its head, and a second
\* submit is on its way while the connection replays.
C1_Witness ==
    /\ Len(history) = historyLimit
    /\ Len(appended) > historyLimit
    /\ \E p \in Posts : InSend(p)
    /\ \E c \in Conns : pc[c] = "replay"

\* The last min(n, historyLimit) of the n updates appended so far.
TailOfAppended == LastN(appended, Min(Len(appended), historyLimit))

\* C2: after n appends History is the last min(n, historyLimit) appended
\* updates in their append order, and a replay that writes the whole
\* snapshot writes exactly these, in that order.
C2_SnapshotIsTail ==
    /\ [](history = TailOfAppended)
    /\ [][\A c \in Conns :
             (pc[c] = "replay" /\ pc'[c] = "sendCount") =>
                 out'[c] = out[c] \o
                     [i \in 1..Len(TailOfAppended) |-> HistoryFragment(TailOfAppended[i])]
         ]_vars

\* A connection has replayed a full snapshot from which the oldest update
\* of the server is gone: historyLimit + k updates were appended before.
C2_Witness ==
    \E c \in Conns :
        /\ pc[c] = "live"
        /\ Cardinality(IdsOf("hist", out[c])) = historyLimit
        /\ -1 \notin IdsOf("hist", out[c])
        /\ Len(appended) > historyLimit + 1

\* C3: no channel ever holds more than bufferSize payloads, and every
\* iteration of the range loop of send puts exactly one copy of the "new"
\* fragment at the tail of a channel that is not full, leaves a full channel
\* as it is, touches no other channel, and leaves no channel with a second
\* copy.
C3_FanOut ==
    /\ [](\A c \in Conns : Len(queue[c]) <= bufferSize)
    /\ [](\A c \in Conns : \A p \in Posts :
             Cardinality({i \in 1..Len(enq[c]) :
                             enq[c][i] = NewFragment(update[p])}) <= 1)
    /\ [][\A p \in Posts : \A ch \in Conns :
             (pc[p] = "fanout" /\ ch \in todo[p] /\ ch \notin todo'[p]) =>
                 /\ ch \in chans
                 /\ queue'[ch] =
                       IF Len(queue[ch]) < bufferSize
                       THEN Append(queue[ch], NewFragment(update[p]))
                       ELSE queue[ch]
                 /\ \A d \in Conns \ {ch} : queue'[d] = queue[d]
         ]_vars

\* One send has visited two registered connections: the channel of one was
\* full and did not get the fragment, the other got it.
C3_Witness ==
    \E p \in Posts : \E c, d \in chans :
        /\ pc[p] = "fanout"
        /\ c # d
        /\ c \notin todo[p]
        /\ d \notin todo[p]
        /\ Len(queue[c]) = bufferSize
        /\ NewFragment(update[p]) \notin Range(enq[c])
        /\ NewFragment(update[p]) \in Range(enq[d])

\* C4: a submit never waits on the progress of a connection: whenever it
\* stands at the append of its update the append can be taken, because no
\* connection handler holds the History mutex; a connection whose write
\* stalls for ever therefore cannot keep the submit from finishing.
C4_SubmitNeverWaits ==
    \A p \in Posts : pc[p] = "append" => CanLock(historyMutex)

\* C5: a submit whose raw message is longer than maxMsgLen changes nothing
\* that is shared (History, the Registry, the channels, the mutexes) and is
\* answered with the redirect; its message is in no stored update and in
\* no fragment.
C5_TooLongIsNoOp ==
    /\ [](\A i \in 1..Len(arrived) :
             Len(arrived[i]) > maxMsgLen =>
                 /\ i \notin AppendedIds
                 /\ \A c \in Conns : i \notin IdsOf("new", enq[c]))
    /\ [][(Len(arrived') = Len(arrived) + 1
              /\ Len(Last(arrived')) > maxMsgLen) =>
             /\ UNCHANGED <<history, chans, queue, historyMutex, chansMutex,
                            appended, enq, out>>
             /\ \E p \in Posts :
                   /\ req'[p] = Last(arrived')
                   /\ pc'[p] = "done"
                   /\ resp'[p] = 302
         ]_vars

\* A message of maxMsgLen + 1 bytes was refused while a connection was
\* registered and another update was in History.
C5_Witness ==
    /\ \E p \in Posts :
          Len(req[p]) = maxMsgLen + 1 /\ pc[p] = "done" /\ resp[p] = 302
    /\ chans # {}
    /\ \E u \in Range(history) : u.id > 0

AllSpace(m) == \A i \in 1..Len(m) : m[i] \in {" ", "\t", "\n", "\r", "\f"}

\* C6: a submit whose message is empty or all white space appends nothing
\* and enqueues nothing, and no update of History has an empty message.
C6_BlankIsNoOp ==
    /\ [](\A i \in 1..Len(arrived) :
             AllSpace(arrived[i]) =>
                 /\ i \notin AppendedIds
                 /\ \A c \in Conns : i \notin IdsOf("new", enq[c]))
    /\ [](\A u \in Range(history) : u.message # <<>>)
    /\ [][(Len(arrived') = Len(arrived) + 1 /\ AllSpace(Last(arrived'))) =>
             UNCHANGED <<history, chans, queue, historyMutex, chansMutex,
                         appended, enq, out>>
         ]_vars

\* A message of white space only was answered while a connection was
\* registered, after an empty one.
C6_Witness ==
    /\ Len(arrived) = 2
    /\ arrived[1] = <<>>
    /\ arrived[2] = <<" ", "\n">>
    /\ \A p \in Posts : pc[p] \in {"idle", "done"}
    /\ chans # {}
    /\ appended = <<>>

\* C7: the count a sendCount sends is the number of connections that were
\* registered at the instant of the join or leave that triggered it.
C7_CountAtTrigger ==
    \A c \in Conns :
        pc[c] \in {"count_rlock", "count_fanout"} => cnt[c] = trig[c]

\* C8: a connection in its live loop whose channel is empty writes one
\* keep-alive byte and flushes, again and again, unless a payload arrives
\* or a write fails; and a keep-alive byte is written only by an iteration
\* that takes nothing from the channel and writes nothing else.
C8_KeepAlive ==
    /\ \A c \in OneConn : \A k \in 0..(PingMod - 1) :
          (pc[c] = "live" /\ queue[c] = <<>> /\ pings[c] = k)
              ~> (pings[c] # k \/ queue[c] # <<>> \/ pc[c] # "live")
    /\ [][\A c \in Conns :
             pings'[c] # pings[c] =>
                 /\ pc[c] = "live"
                 /\ pc'[c] = "live"
                 /\ pings'[c] = (pings[c] + 1) % PingMod
                 /\ unflushed'[c] = 0
                 /\ UNCHANGED <<queue, out, enq>>
         ]_vars

\* A connection has written a keep-alive byte and stands in its live loop
\* with an empty channel.
C8_Witness ==
    \E c \in OneConn : pc[c] = "live" /\ queue[c] = <<>> /\ pings[c] = 1

\* C9 as claimed: no update is written to a connection both as a replayed
\* fragment and as a live "new" fragment.
C9_NeverBoth ==
    \A c \in Conns : IdsOf("hist", out[c]) \cap IdsOf("new", out[c]) = {}

\* C9 as amended: an update whose fan-out had begun before a connection
\* joined the Registry is never enqueued into that connection's channel,
\* so it is never written to it live; only an update whose submit overlaps
\* the opening of the connection can be written to it both ways.
C9_NoLiveCopyOfEarlier ==
    \A c \in Conns :
        /\ before[c] \cap IdsOf("new", enq[c]) = {}
        /\ before[c] \cap IdsOf("new", out[c]) = {}

\* An update appended before a connection opened was replayed to it and not
\* sent live, and a later update was written to it both ways.
C9_Witness ==
    \E c \in Conns :
        /\ -1 \in before[c] \cap IdsOf("hist", out[c])
        /\ IdsOf("hist", out[c]) \cap IdsOf("new", out[c]) # {}

\* The five entities html.EscapeString writes, and how a browser reads them.
Entities ==
    { <<"&", "a", "m", "p", ";">>, <<"&", "l", "t", ";">>,
      <<"&", "g", "t", ";">>, <<"&", "#", "3", "4", ";">>,
      <<"&", "#", "3", "9", ";">> }
EntityChar(e) ==
    CASE e = <<"&", "a", "m", "p", ";">> -> "&"
      [] e = <<"&", "l", "t", ";">> -> "<"
      [] e = <<"&", "g", "t", ";">> -> ">"
      [] e = <<"&", "#", "3", "4", ";">> -> "\""
      [] e = <<"&", "#", "3", "9", ";">> -> "'"
EntityAt(s, i) ==
    {e \in Entities : i + Len(e) - 1 <= Len(s)
                        /\ SubSeq(s, i, i + Len(e) - 1) = e}
RECURSIVE Unescape(_)
Unescape(s) ==
    IF s = <<>> THEN <<>>
    ELSE IF EntityAt(s, 1) # {}
    THEN LET e == CHOOSE x \in EntityAt(s, 1) : TRUE
         IN  <<EntityChar(e)>> \o Unescape(SubSeq(s, Len(e) + 1, Len(s)))
    ELSE <<Head(s)>> \o Unescape(Tail(s))
\* A text from its first to its last character that is not white space.
Ink(a) == {i \in 1..Len(a) : ~AllSpace(<<a[i]>>)}
Inked(a) ==
    IF Ink(a) = {} THEN <<>>
    ELSE SubSeq(a, CHOOSE i \in Ink(a) : \A k \in Ink(a) : i <= k,
                   CHOOSE j \in Ink(a) : \A k \in Ink(a) : k <= j)
ExampleEscaped ==
    <<"&", "l", "t", ";", "b", "&", "g", "t", ";", "h", "i",
      "&", "l", "t", ";", "/", "b", "&", "g", "t", ";">>
\* The updates and message fragments of the state, as <<id, message>>.
Stored ==
    {<<u.id, u.message>> : u \in Range(history)}
        \cup UNION {{<<f.id, f.message>> :
                        f \in {g \in Range(queue[c]) \cup Range(out[c]) :
                                  g.kind \in {"new", "hist"}}} : c \in Conns}

\* C10: every stored or broadcast message is the escaped form of the text
\* that was posted: it holds none of < > " ', every & in it begins one of
\* the five entities, unescaping it gives back the trimmed text, and
\* <b>hi</b> is stored as &lt;b&gt;hi&lt;/b&gt;.
C10_Escaped ==
    \A x \in Stored :
        LET id == x[1]
            msg == x[2]
        IN  /\ \A i \in 1..Len(msg) : msg[i] \notin {"<", ">", "\"", "'"}
            /\ \A i \in 1..Len(msg) : msg[i] = "&" => EntityAt(msg, i) # {}
            /\ id \in 1..Len(arrived)
            /\ "NUL" \notin Range(arrived[id]) =>
                   Unescape(msg) = Inked(arrived[id])
            /\ arrived[id] = Example => msg = ExampleEscaped

\* <b>hi</b> was posted and a connection has written its escaped form as
\* a live fragment.
C10_Witness ==
    \E c \in Conns : \E f \in Range(out[c]) :
        f.kind = "new" /\ f.message = ExampleEscaped

\* What a connection wrote in its live loop: the payloads of its channel.
LiveOut(c) == SelectSeq(out[c], LAMBDA f : f.kind \in {"new", "count"})
Opening(c) == pc[c] \in {"head", "sendHistory", "replay"}

\* C11 as claimed: while a connection writes the page head and replays
\* History, its channel is not in the Registry, so no broadcast can put a
\* payload into it before the connection is live.
C11_NotJoinedBeforeLive ==
    \A c \in Conns : Opening(c) => c \notin chans /\ enq[c] = <<>>

\* C11 as amended: the channel is in the Registry during the whole of the
\* head write and the replay, so a broadcast can enqueue into it then; what
\* was enqueued is written to the response by the live loop only, after
\* the replay.
C11_JoinedBeforeReplay ==
    \A c \in Conns : Opening(c) => c \in chans /\ LiveOut(c) = <<>>

\* A submit has put its fragment into the channel of a connection that is
\* still replaying.
C11_Witness ==
    \E c \in Conns :
        /\ pc[c] = "replay"
        /\ \E f \in Range(queue[c]) : f.kind = "new"

\* C12: a connection that made its channel leaves the Registry once and
\* then calls sendCount once from the deferred function, whether a Write
\* of the replay or a Write of the live loop failed: never twice, the
\* count never before the leave, and a handler that has returned has done
\* both.
C12_CleanupOnce ==
    \A c \in Conns :
        /\ calls[c].addChan <= 1
        /\ calls[c].removeChan <= calls[c].addChan
        /\ calls[c].deferred <= calls[c].removeChan
        /\ calls[c].sendCount <= calls[c].deferred + 1
        /\ closing[c] <=> calls[c].removeChan = 1
        /\ pc[c] = "closed" =>
              /\ calls[c].addChan = 1
              /\ calls[c].removeChan = 1
              /\ calls[c].deferred = 1
              /\ fail[c].at # "none"
              /\ c \notin chans
        /\ (fail[c].at \in {"history", "live"} /\ pc[c] # "closed") =>
              pc[c] \in {"removeChan", "sendCount", "count_rlock",
                         "count_fanout"}

\* One handler has returned after a Write of its replay failed, the other
\* after a Write of its live loop failed.
C12_Witness ==
    \E c, d \in Conns :
        /\ pc[c] = "closed" /\ fail[c].at = "history"
        /\ pc[d] = "closed" /\ fail[d].at = "live"

\* The connections that have joined the Registry and not left it.
Joined == {c \in Conns : calls[c].addChan = 1 /\ calls[c].removeChan = 0}

\* C13: the Registry holds exactly the channels of the connections that
\* have joined and not left; no range loop still has a channel to visit
\* that has left, and no step tries a send into, or changes, the channel of
\* a connection that has left, whether the step belongs to send or to
\* sendCount.
C13_RegistryIsOpenConns ==
    /\ [](chans = Joined)
    /\ [](\A p \in Procs : todo[p] \subseteq chans)
    /\ [][\A c \in Conns :
             (tried'[c] # tried[c] \/ enq'[c] # enq[c]
                 \/ Len(queue'[c]) > Len(queue[c])) =>
                 c \in chans /\ c \in chans'
         ]_vars

\* A connection has left with payloads of a submit and of a count in its
\* channel, and a later count broadcast is on its way to the connection that
\* stays.
C13_Witness ==
    \E c, d \in Conns :
        /\ calls[c].removeChan = 1
        /\ \E f \in Range(enq[c]) : f.kind = "new"
        /\ \E f \in Range(enq[c]) : f.kind = "count"
        /\ d \in chans
        /\ pc[c] = "count_fanout"
        /\ d \in todo[c]

\* The handler has returned from its body: the deferred function is about
\* to run, runs, or has run.
InCleanup(c) ==
    \/ pc[c] \in {"removeChan", "closed"}
    \/ pc[c] \in {"sendCount", "count_rlock", "count_fanout"} /\ closing[c]

\* C14: once a Write of the page head or of a history entry has failed,
\* the handler writes and flushes nothing more, never stands in its live
\* loop and calls sendCount from the deferred function only.
C14_ReplayFailureCloses ==
    \A c \in Conns :
        fail[c].at \in {"head", "history"} =>
            /\ ~fail[c].more
            /\ pc[c] # "live"
            /\ calls[c].sendCount = calls[c].deferred

\* C15: the first Write that fails in the live loop ends the loop: the
\* handler goes to its deferred function, where it writes and flushes
\* nothing, and its channel leaves the Registry.
C15_LiveFailureTerminates ==
    /\ [](\A c \in Conns :
             fail[c].at = "live" => ~fail[c].more /\ InCleanup(c))
    /\ [][\A c \in Conns :
             /\ (pc[c] = "live" /\ pc'[c] # "live") =>
                    pc'[c] = "removeChan" /\ fail'[c].at # "none"
             /\ InCleanup(c) =>
                    /\ InCleanup(c)'
                    /\ out'[c] = out[c]
                    /\ pings'[c] = pings[c]
                    /\ unflushed'[c] = unflushed[c]
                    /\ fail'[c] = fail[c]
         ]_vars
    /\ \A c \in OneConn : (pc[c] = "removeChan") ~> (c \notin chans)
    /\ \A c \in OneConn : (fail[c].at = "live") ~> (pc[c] = "closed")

\* A handler has returned after the Write of a payload it had taken from
\* its channel failed, having written a payload and a keep-alive byte
\* before.
C15_Witness ==
    \E c \in OneConn :
        /\ pc[c] = "closed"
        /\ fail[c].at = "live"
        /\ LiveOut(c) # <<>>
        /\ Len(LiveOut(c)) + 1 < Len(enq[c]) + Len(queue[c])
        /\ pings[c] = 1

IsPrefix(s, t) == Len(s) <= Len(t) /\ SubSeq(t, 1, Len(s)) = s
IsSuffix(s, t) == Len(s) <= Len(t) /\ SubSeq(t, Len(t) - Len(s) + 1, Len(t)) = s

\* C16: what a connection has written in its live loop is a prefix of the
\* payloads that were enqueued into its channel, in the order of the
\* enqueues; what its channel still holds is the rest of them, in order;
\* at most the one payload whose Write failed is in neither, so nothing is
\* written twice or out of order.
C16_Fifo ==
    \A c \in Conns :
        /\ IsPrefix(LiveOut(c), enq[c])
        /\ IsSuffix(queue[c], enq[c])
        /\ Len(enq[c]) - (Len(LiveOut(c)) + Len(queue[c])) \in
              (IF fail[c].at = "live" THEN {0, 1} ELSE {0})

\* A connection has written three payloads, updates and a count among
\* them, has more in its channel, and a submit and a count broadcast are
\* both in their range loops.
C16_Witness ==
    \E c, d \in Conns : \E p \in Posts :
        /\ Len(LiveOut(c)) >= 3
        /\ \E f \in Range(LiveOut(c)) : f.kind = "new"
        /\ \E f \in Range(LiveOut(c)) : f.kind = "count"
        /\ Len(queue[c]) >= 2
        /\ pc[p] = "fanout"
        /\ pc[d] = "count_fanout"

\* C17: a handler whose ResponseWriter is no Flusher returns at once: the
\* step changes nothing but the handler's own position, and the handler
\* has written nothing, made and registered no channel, called neither
\* addChan nor sendCount nor removeChan, and does nothing afterwards.
C17_NoFlusherAborts ==
    /\ [](\A c \in Conns :
             pc[c] = "returned" =>
                 /\ out[c] = <<>>
                 /\ unflushed[c] = 0
                 /\ pings[c] = 0
                 /\ c \notin chans
                 /\ tried[c] = <<>>
                 /\ queue[c] = <<>>
                 /\ calls[c] = NoCalls
                 /\ fail[c] = NoFail)
    /\ [][\A c \in Conns :
             /\ (pc'[c] = "returned" /\ pc[c] # "returned") =>
                    /\ pc[c] = "idle"
                    /\ UNCHANGED <<history, chans, historyMutex, chansMutex,
                                   queue, todo, cnt, closing, pings,
                                   unflushed, out, enq, appended, calls,
                                   tried, fail>>
             /\ pc[c] = "returned" => pc'[c] = "returned"
         ]_vars

\* One handler has returned for want of a Flusher while the other
\* connection is registered and live, its count in its channel or written.
C17_Witness ==
    \E c, d \in Conns :
        /\ pc[c] = "returned"
        /\ pc[d] = "live"
        /\ chans = {d}
        /\ enq[d] = <<CountFragment(1)>>

\* No join or leave and no count broadcast is pending.
Quiescent == \A c \in Conns : pc[c] \in {"idle", "returned", "live", "closed"}
\* No send into a channel found it full.
NoDrop == \A c \in Conns : tried[c] = enq[c]
CountsOf(c) == SelectSeq(enq[c], LAMBDA f : f.kind = "count")

\* C18: when no join, leave or count broadcast is pending, no channel was
\* ever full and no Write has failed, the last count enqueued into the
\* channel of every live connection is the number of channels in the
\* Registry.
C18_CountersCurrent ==
    (Quiescent /\ NoDrop /\ \A c \in Conns : fail[c] = NoFail) =>
        \A c \in Conns :
            pc[c] = "live" =>
                /\ CountsOf(c) # <<>>
                /\ Last(CountsOf(c)).n = Cardinality(chans)

\* The updates a send into the channel of c was tried with, the updates
\* replayed to c, and the updates whose send has yet to reach c.
Attempted(c) == IdsOf("new", tried[c])
Replayed(c) == IdsOf("hist", out[c])
OnItsWay(c) ==
    {update[p].id : p \in {q \in Posts : pc[q] = "send"
                                            \/ (pc[q] = "fanout" /\ c \in todo[q])}}
ReplayDone(c) ==
    pc[c] \in {"sendCount", "count_rlock", "count_fanout", "live"}
        /\ ~closing[c]

\* C19: for a connection that has replayed History and is open, every
\* update appended since it joined was replayed to it, or a send of its
\* "new" fragment into its channel was tried or is about to be; and a send
\* that is tried on a channel with room enqueues the payload.
C19_NoUpdateMissed ==
    /\ [](\A c \in Conns :
             ReplayDone(c) =>
                 (AppendedIds \ before[c]) \subseteq
                     (Replayed(c) \cup Attempted(c) \cup OnItsWay(c)))
    /\ [][\A c \in Conns :
             (tried'[c] # tried[c] /\ Len(queue[c]) < bufferSize) =>
                 /\ tried'[c] = Append(tried[c], Last(tried'[c]))
                 /\ queue'[c] = Append(queue[c], Last(tried'[c]))
         ]_vars

\* Two submits overlapped the opening of a connection that is now live:
\* one update was appended in time for the snapshot and was also sent into
\* the channel, the other came after the snapshot and was sent only.
C19_Witness ==
    \E c \in Conns :
        /\ pc[c] = "live"
        /\ \A p \in Posts : pc[p] = "done"
        /\ (AppendedIds \ before[c]) \cap Replayed(c) \cap Attempted(c) # {}
        /\ (AppendedIds \ before[c]) \cap (Attempted(c) \ Replayed(c)) # {}

\* C20: no goroutine holds both mutexes, and one that holds a mutex is at
\* a step that takes no mutex; every reader gives its mutex back, so a
\* pending join finds the Registry mutex free; and when every Write
\* returns, a submit that has an update finishes, a handler that has
\* joined reaches its live loop or returns, and a cleanup that has begun
\* ends.
C20_NoDeadlock ==
    /\ [](historyMutex \cap chansMutex = {})
    /\ [](\A p \in historyMutex : pc[p] = "replay")
    /\ [](\A p \in chansMutex : pc[p] \in {"fanout", "count_fanout"})
    /\ \A p \in Procs : (p \in chansMutex) ~> (chansMutex = {})
    /\ \A p \in Procs : (p \in historyMutex) ~> (historyMutex = {})
    /\ \A p \in OnePost : (pc[p] = "append") ~> (pc[p] = "done")
    /\ \A c \in OneConn : (pc[c] = "head") ~> (pc[c] \in {"live", "closed"})
    /\ \A c \in OneConn : (pc[c] = "removeChan") ~> (pc[c] = "closed")

\* The submit stands at its append while the connection holds the History
\* mutex in its replay: the submit has to wait for the connection.
C20_Witness ==
    \E p \in OnePost : \E c \in OneConn :
        /\ pc[p] = "append"
        /\ pc[c] = "replay"
        /\ c \in historyMutex

=============================================================================
